---- MODULE Spec2Model ----
(***************************************************************************)
(* A model of financial_dashboard.py: the session's two data frames        *)
(* (transactions, budgets), the two sidebar handlers that change them, and *)
(* the frames the three tabs derive from them on every run of the script.  *)
(*                                                                         *)
(* A data frame is a sequence of rows, a row a record of its columns.      *)
(* An amount is a whole number of hundredths of a rupee (the step of the   *)
(* number inputs); binary floating-point rounding is not modelled.  A text *)
(* is a sequence of one-character strings, a date a record of year, month  *)
(* and day.                                                                *)
(***************************************************************************)
EXTENDS Integers, Sequences, FiniteSets, TLC

VARIABLES
    transactions,   \* st.session_state.transactions
    budgets,        \* st.session_state.budgets
    download,       \* the file the browser received in the latest run
    submitted,      \* history: the widget values of every Add Transaction click
    limits_set      \* history: per category, the amount of its last Set Budget click

vars == <<transactions, budgets, download, submitted, limits_set>>

\* ------------------------------------------------------------------ bounds

\* The longest transaction frame the model explores.
MaxTx == 2

\* ------------------------------------------------------- program constants

\* The options of both category select boxes.
Categories == {"Food", "Transport", "Rent", "Entertainment", "Utilities", "Other"}

\* The options of the type radio.
Types == {"Income", "Expense"}

\* min_value of both number inputs: 0.01, in hundredths.
MinValue == 1

\* What st.download_button has delivered in a run that was not a click on it.
NoFile == <<"no file">>

\* ------------------------------------------------------------------- texts

Digits == <<"0", "1", "2", "3", "4", "5", "6", "7", "8", "9">>

DigitChar(d) == Digits[d + 1]

DigitValue(c) == CHOOSE d \in 0..9 : Digits[d + 1] = c

IsDigit(c) == \E d \in 0..9 : Digits[d + 1] = c

\* The decimal digits of a natural number, no padding.
RECURSIVE NatStr(_)
NatStr(n) == IF n < 10 THEN <<DigitChar(n)>>
             ELSE NatStr(n \div 10) \o <<DigitChar(n % 10)>>

\* The digits of n, zero-padded on the left to width w.
RECURSIVE Pad(_, _)
Pad(s, w) == IF Len(s) >= w THEN s ELSE Pad(<<"0">> \o s, w)

\* The code points of the characters a month key is made of.
CharCode(c) == IF c = "-" THEN 45 ELSE 48 + DigitValue(c)

\* Python's str < str: the first differing character decides, a proper
\* prefix is smaller.
RECURSIVE TextLess(_, _)
TextLess(a, b) ==
    IF b = << >> THEN FALSE
    ELSE IF a = << >> THEN TRUE
    ELSE IF Head(a) = Head(b) THEN TextLess(Tail(a), Tail(b))
    ELSE CharCode(Head(a)) < CharCode(Head(b))

\* The labels of the model in str order.
LabelOrder == <<"Entertainment", "Expense", "Food", "Income", "Other",
                "Rent", "Transport", "Utilities">>

LabelRank(s) == CHOOSE i \in 1..Len(LabelOrder) : LabelOrder[i] = s

LabelLess(a, b) == LabelRank(a) < LabelRank(b)

\* ------------------------------------------------------------------ frames

\* df['Amount'].sum(): 0 over no rows.
RECURSIVE SumAmount(_)
SumAmount(df) == IF df = << >> THEN 0 ELSE Head(df).Amount + SumAmount(Tail(df))

\* Empty with the test turned round.
EmptyNegated(df) == Len(df) # 0

\* df.empty
Empty(df) == Len(df) = 0

\* pd.concat([a, b], ignore_index=True)
Concat(a, b) == a \o b

\* ----------------------------------------------------------------- sidebar

\* NumberInput with min_value=0.
NumberInputFromZero(v) == v >= 0

\* st.number_input(min_value=0.01): whether the widget hands the value typed
\* to the script.
NumberInput(v) == v >= MinValue

\* The row the Add Transaction handler builds from the widgets' values.
NewTransaction(d, s, c, a, t) ==
    [Date |-> d, Description |-> s, Category |-> c, Amount |-> a, Type |-> t]

\* AddedTransaction with the new row put first.
AddedTransactionFirst(df, row) == Concat(<<row>>, df)

\* The frame the Add Transaction handler stores.
AddedTransaction(df, row) == Concat(df, <<row>>)

\* UpsertedBudget without the removal of the category's row.
UpsertedBudgetKept(df, c, a) == Concat(df, <<[Category |-> c, Amount |-> a]>>)

\* The frame the Set Budget handler stores: the rows of the other categories,
\* then the new row.
UpsertedBudget(df, c, a) ==
    Concat(SelectSeq(df, LAMBDA r : r.Category # c),
           <<[Category |-> c, Amount |-> a]>>)

\* ---------------------------------------------------------------- overview

\* SumOfType without the selection of the rows.
SumOfAllTypes(df, t) == SumAmount(df)

\* Sum of the Amount column over the rows of one Type.
SumOfType(df, t) == SumAmount(SelectSeq(df, LAMBDA r : r.Type = t))

total_income(df) == SumOfType(df, "Income")

total_expenses(df) == SumOfType(df, "Expense")

net_balance(df) == total_income(df) - total_expenses(df)

\* pd.to_datetime(date).dt.to_period('M').astype(str): "YYYY-MM".
MonthKey(d) == Pad(NatStr(d.year), 4) \o <<"-">> \o Pad(NatStr(d.month), 2)

\* The copy of the frame with its Month column.
WithMonth(df) ==
    [i \in 1..Len(df) |->
        [Date |-> df[i].Date, Description |-> df[i].Description,
         Category |-> df[i].Category, Amount |-> df[i].Amount,
         Type |-> df[i].Type, Month |-> MonthKey(df[i].Date)]]

\* GroupLess of groupby(['Type', 'Month']): by Type, then Month.
GroupLessTypeFirst(a, b) ==
    \/ LabelLess(a[2], b[2])
    \/ a[2] = b[2] /\ TextLess(a[1], b[1])

\* The order groupby(['Month', 'Type']) gives its groups: by Month, then Type.
GroupLess(a, b) ==
    \/ TextLess(a[1], b[1])
    \/ a[1] = b[1] /\ LabelLess(a[2], b[2])

\* The (Month, Type) keys of a set in group order.
RECURSIVE SortGroups(_)
SortGroups(S) ==
    IF S = {} THEN << >>
    ELSE LET least == CHOOSE x \in S : \A y \in S \ {x} : GroupLess(x, y)
         IN <<least>> \o SortGroups(S \ {least})

\* The rows of the groups of a frame: the key's columns and the sum of the
\* Amounts of the rows with that key.
MonthTypeSums(t, keys) ==
    [k \in 1..Len(keys) |->
        [Month |-> keys[k][1], Type |-> keys[k][2],
         Amount |-> SumAmount(SelectSeq(t,
             LAMBDA r : r.Month = keys[k][1] /\ r.Type = keys[k][2]))]]

\* The (Month, Type) pairs that occur in a frame.
MonthTypeKeys(t) == {<<t[i].Month, t[i].Type>> : i \in 1..Len(t)}

\* groupby(['Month', 'Type']).sum(numeric_only=True).reset_index() of a frame
\* with its Month column.
GroupedByMonthType(t) == MonthTypeSums(t, SortGroups(MonthTypeKeys(t)))

\* monthly_data: one row for each (Month, Type) that occurs, with the sum of
\* its Amounts, in group order.
monthly_data(df) == GroupedByMonthType(WithMonth(df))

\* expenses without the selection of the Expense rows.
expenses_unselected(df) == WithMonth(df)

\* transactions[transactions['Type'] == 'Expense']
expenses(df) == SelectSeq(WithMonth(df), LAMBDA r : r.Type = "Expense")

\* The sectors px.pie draws from names='Category', values='Amount': one for each
\* name that occurs, the values of equal names added up.
PieSectors(df) ==
    {[Category |-> c,
      Amount |-> SumAmount(SelectSeq(df, LAMBDA r : r.Category = c))] :
        c \in {df[i].Category : i \in 1..Len(df)}}

\* The three metrics of the Overview tab, shown while there are transactions.
OverviewMetrics(df) ==
    IF ~Empty(df)
    THEN <<[total_income |-> total_income(df),
            total_expenses |-> total_expenses(df),
            net_balance |-> net_balance(df)]>>
    ELSE << >>

\* The frame of the Overview's line chart, drawn while there are transactions.
OverviewLine(df) == IF ~Empty(df) THEN <<monthly_data(df)>> ELSE << >>

\* The Overview's pie, drawn while there are transactions and expenses among
\* them.
OverviewPie(df) ==
    IF ~Empty(df) /\ ~Empty(expenses(df)) THEN <<PieSectors(expenses(df))>>
    ELSE << >>

\* The notice the Overview tab shows while there are no transactions.
OverviewInfo(df) ==
    IF ~Empty(df) THEN << >>
    ELSE <<"No transactions yet. Add some in the sidebar!">>

\* ------------------------------------------------------------ transactions

\* datetime.date's order.
DateLess(a, b) ==
    \/ a.year < b.year
    \/ a.year = b.year /\ a.month < b.month
    \/ a.year = b.year /\ a.month = b.month /\ a.day < b.day

\* A row put into a frame that descends by Date, behind the rows of its date.
RECURSIVE InsertByDate(_, _)
InsertByDate(sorted, row) ==
    IF sorted = << >> THEN <<row>>
    ELSE IF DateLess(Head(sorted).Date, row.Date) THEN <<row>> \o sorted
    ELSE <<Head(sorted)>> \o InsertByDate(Tail(sorted), row)

\* df.sort_values('Date', ascending=False): a new frame, latest date first, rows
\* of one date in the order they had.
RECURSIVE sort_values(_)
sort_values(df) ==
    IF df = << >> THEN << >>
    ELSE InsertByDate(sort_values(SubSeq(df, 1, Len(df) - 1)), df[Len(df)])

\* str(datetime.date): "YYYY-MM-DD".
DateStr(d) ==
    Pad(NatStr(d.year), 4) \o <<"-">> \o Pad(NatStr(d.month), 2)
        \o <<"-">> \o Pad(NatStr(d.day), 2)

\* repr of the float of an amount: the rupees, a point, and the hundredths
\* without a trailing zero ("50.0", "30.5", "0.01").
AmountStr(a) ==
    NatStr(a \div 100) \o <<".">> \o
        (IF a % 10 = 0 THEN <<DigitChar((a % 100) \div 10)>>
         ELSE <<DigitChar((a % 100) \div 10), DigitChar(a % 10)>>)

\* The text of a label or of a column name, kept as one unit: none of them
\* holds a character the writer treats specially.
LabelStr(s) == <<s>>

\* csv's QUOTE_MINIMAL as to_csv sets the writer up (line terminator "\n"): a
\* field is quoted when it holds the delimiter, the quote character or a
\* character of the line terminator, and its quote characters are doubled.  A
\* carriage return is none of these and is written as it is.
NeedsQuote(f) == \E i \in 1..Len(f) : f[i] \in {",", "\"", "\n"}

RECURSIVE DoubleQuotes(_)
DoubleQuotes(f) ==
    IF f = << >> THEN << >>
    ELSE (IF Head(f) = "\"" THEN <<"\"", "\"">> ELSE <<Head(f)>>)
             \o DoubleQuotes(Tail(f))

CsvField(f) ==
    IF NeedsQuote(f) THEN <<"\"">> \o DoubleQuotes(f) \o <<"\"">> ELSE f

\* One line of the file: the fields, commas between them, a line feed.
CsvLine(fields) ==
    CsvField(fields[1]) \o <<",">> \o CsvField(fields[2]) \o <<",">>
        \o CsvField(fields[3]) \o <<",">> \o CsvField(fields[4]) \o <<",">>
        \o CsvField(fields[5]) \o <<"\n">>

CsvHeader ==
    <<LabelStr("Date"), LabelStr("Description"), LabelStr("Category"),
      LabelStr("Amount"), LabelStr("Type")>>

\* The fields of a row as to_csv writes them.
CsvRow(r) ==
    <<DateStr(r.Date), r.Description, LabelStr(r.Category), AmountStr(r.Amount),
      LabelStr(r.Type)>>

RECURSIVE CsvLines(_)
CsvLines(df) ==
    IF df = << >> THEN << >> ELSE CsvLine(CsvRow(Head(df))) \o CsvLines(Tail(df))

\* to_csv of the frame in the order of the table on screen.
to_csv_sorted(df) == CsvLine(CsvHeader) \o CsvLines(sort_values(df))

\* df.to_csv(index=False): the header line, then a line for each row in the
\* frame's order.
to_csv(df) == CsvLine(CsvHeader) \o CsvLines(df)

\* The Transactions tab: the table and the file the export button offers, or
\* the notice.
History(df) ==
    IF ~Empty(df)
    THEN [table |-> <<sort_values(df)>>, data |-> <<to_csv(df)>>, info |-> << >>]
    ELSE [table |-> << >>, data |-> << >>,
          info |-> <<"No transactions yet. Add some in the sidebar!">>]

\* ------------------------------------------------------------------ budget

\* The Category labels of a set in str order.
RECURSIVE SortLabels(_)
SortLabels(S) ==
    IF S = {} THEN << >>
    ELSE LET least == CHOOSE x \in S : \A y \in S \ {x} : LabelLess(x, y)
         IN <<least>> \o SortLabels(S \ {least})

\* expenses_by_category over the rows of both types.
amounts_by_category(df) ==
    LET keys == SortLabels({df[i].Category : i \in 1..Len(df)})
    IN [k \in 1..Len(keys) |->
           [Category |-> keys[k],
            Amount |-> SumAmount(SelectSeq(df, LAMBDA r : r.Category = keys[k]))]]

\* transactions[Type == 'Expense'].groupby('Category').sum(numeric_only=True)
\* .reset_index(): one row for each category with an Expense row.
expenses_by_category(df) ==
    LET e == SelectSeq(df, LAMBDA r : r.Type = "Expense")
        keys == SortLabels({e[i].Category : i \in 1..Len(e)})
    IN [k \in 1..Len(keys) |->
           [Category |-> keys[k],
            Amount |-> SumAmount(SelectSeq(e, LAMBDA r : r.Category = keys[k]))]]

\* MergeRow of an inner join: a left row without a right row gets none.
MergeRowInner(l, right) ==
    LET m == SelectSeq(right, LAMBDA r : r.Category = l.Category)
    IN [j \in 1..Len(m) |->
           [Category |-> l.Category, Amount_budget |-> <<l.Amount>>,
            Amount_actual |-> <<m[j].Amount>>]]

\* The rows a left row gets in pd.merge(left, right, on='Category', how='left'):
\* one for each right row of its category, or one with no Amount_actual.
MergeRow(l, right) ==
    LET m == SelectSeq(right, LAMBDA r : r.Category = l.Category)
    IN IF m = << >>
       THEN <<[Category |-> l.Category, Amount_budget |-> <<l.Amount>>,
               Amount_actual |-> << >>]>>
       ELSE [j \in 1..Len(m) |->
                [Category |-> l.Category, Amount_budget |-> <<l.Amount>>,
                 Amount_actual |-> <<m[j].Amount>>]]

\* The left join, in the order of the left frame.  A cell is << >> where the
\* frame holds NaN and <<v>> where it holds v.
RECURSIVE MergeLeft(_, _)
MergeLeft(left, right) ==
    IF left = << >> THEN << >>
    ELSE MergeRow(Head(left), right) \o MergeLeft(Tail(left), right)

\* fillna(0) on one cell.
FillNa(cell) == IF cell = << >> THEN 0 ELSE cell[1]

RECURSIVE Gcd(_, _)
Gcd(a, b) == IF b = 0 THEN a ELSE Gcd(b, a % b)

\* (actual / budget) * 100 as a fraction in lowest terms; over a budget of 0 the
\* float division gives inf (1/0) or NaN (0/0) and raises nothing.
PercentageUsed(actual, budget) ==
    IF budget = 0 THEN [num |-> IF actual = 0 THEN 0 ELSE 1, den |-> 0]
    ELSE LET g == Gcd(actual * 100, budget)
         IN [num |-> (actual * 100) \div g, den |-> budget \div g]

\* One row of the table: the filled cells, Remaining and Percentage Used.
AnalysisRow(m) ==
    LET b == FillNa(m.Amount_budget)
        a == FillNa(m.Amount_actual)
    IN [Category |-> m.Category, Amount_budget |-> b, Amount_actual |-> a,
        Remaining |-> b - a, Percentage_Used |-> PercentageUsed(a, b)]

budget_vs_actual(tx, bg) ==
    LET merged == MergeLeft(bg, expenses_by_category(tx))
    IN [i \in 1..Len(merged) |-> AnalysisRow(merged[i])]

\* Whether the Budget Analysis tab shows the table.
AnalysisShown(tx, bg) == ~Empty(tx) /\ ~Empty(bg)

\* The Budget Analysis tab: the table, or the notice.
BudgetAnalysis(tx, bg) ==
    IF AnalysisShown(tx, bg)
    THEN [table |-> <<budget_vs_actual(tx, bg)>>, info |-> << >>]
    ELSE [table |-> << >>,
          info |-> <<"Add transactions and set budgets to see analysis.">>]

\* ------------------------------------------------------------------ inputs

\* The values the model's user gives the widgets.
Dates == {[year |-> 2023, month |-> 12, day |-> 20],
          [year |-> 2024, month |-> 1, day |-> 5]}

Descriptions == {<<"a">>}

CategoryChoices == {"Food", "Rent"}

\* Amounts typed into "Amount (Rs)": 0.00, 30.00 and 70.00.
TypedAmounts == {0, 3000, 7000}

\* Amounts typed into "Budget Amount (Rs)": 0.00, 50.00 and 100.00.
TypedBudgets == {0, 5000, 10000}

\* The inputs of the runs that exercise the export: texts with the characters
\* the writer quotes, amounts with each shape of fraction.
CsvDates == {[year |-> 2024, month |-> 2, day |-> 10],
             [year |-> 2024, month |-> 3, day |-> 1]}

CsvDescriptions == {<< >>, <<"a", ",", "b">>, <<"\"", "a">>}

CsvAmounts == {0, 1, 3050, 5000}

\* ----------------------------------------------------------- state machine

TypeOK ==
    /\ transactions \in Seq([Date : Dates \cup CsvDates,
                             Description : Descriptions \cup CsvDescriptions,
                             Category : Categories,
                             Amount : Int, Type : Types])
    /\ budgets \in Seq([Category : Categories, Amount : Int])

\* The session state the first run of the script sets up.
Init ==
    /\ transactions = << >>
    /\ budgets = << >>
    /\ download = NoFile
    /\ submitted = << >>
    /\ limits_set = [c \in Categories |-> << >>]

\* A click on "Add Transaction" and the run of the script it starts.
AddTransaction(d, s, c, a, t) ==
    /\ Len(transactions) < MaxTx
    /\ NumberInput(a)
    /\ transactions' = AddedTransaction(transactions, NewTransaction(d, s, c, a, t))
    /\ download' = NoFile
    /\ submitted' = Append(submitted, <<d, s, c, a, t>>)
    /\ UNCHANGED <<budgets, limits_set>>

\* A click on "Set Budget" and the run of the script it starts.
SetBudget(c, a) ==
    /\ NumberInput(a)
    /\ budgets' = UpsertedBudget(budgets, c, a)
    /\ download' = NoFile
    /\ limits_set' = [limits_set EXCEPT ![c] = <<a>>]
    /\ UNCHANGED <<transactions, submitted>>

\* A click on "Export Transactions", offered while there are transactions: the
\* browser receives the file the last run prepared.
ExportTransactions ==
    /\ History(transactions).data # << >>
    /\ download' = History(transactions).data[1]
    /\ UNCHANGED <<transactions, budgets, submitted, limits_set>>

\* Any other interaction: the script runs again and changes nothing it keeps.
Rerun ==
    /\ download' = NoFile
    /\ UNCHANGED <<transactions, budgets, submitted, limits_set>>

Next ==
    \/ \E d \in Dates, s \in Descriptions, c \in CategoryChoices,
          a \in TypedAmounts, t \in Types : AddTransaction(d, s, c, a, t)
    \/ \E c \in CategoryChoices, a \in TypedBudgets : SetBudget(c, a)
    \/ ExportTransactions
    \/ Rerun

Spec == Init /\ [][Next]_vars

\* The same program with the inputs that exercise the export.
NextCsv ==
    \/ \E d \in CsvDates, s \in CsvDescriptions, a \in CsvAmounts :
          AddTransaction(d, s, "Food", a, "Expense")
    \/ SetBudget("Food", 10000)
    \/ ExportTransactions
    \/ Rerun

SpecCsv == Init /\ [][NextCsv]_vars

\* ------------------------------------------------------------------ claims

\* The number of rows of a frame with a category.
RowsOf(df, c) == Cardinality({i \in 1..Len(df) : df[i].Category = c})

\* C1: the budget frame holds exactly one row for each category a budget was
\* ever set for and none for any other, and the row's amount is the one of the
\* latest Set Budget for its category, whatever was set for other categories
\* since.
C1_BudgetLastWriteWins ==
    \A c \in Categories :
        /\ RowsOf(budgets, c) = (IF limits_set[c] = << >> THEN 0 ELSE 1)
        /\ \A i \in 1..Len(budgets) :
              budgets[i].Category = c => <<budgets[i].Amount>> = limits_set[c]

\* Budgets of two categories are stored with different amounts, the one set
\* last for the category that sorts first, and there are transactions.
C1_Witness ==
    /\ Len(budgets) = 2
    /\ budgets[1].Amount # budgets[2].Amount
    /\ LabelLess(budgets[2].Category, budgets[1].Category)
    /\ transactions # << >>

\* The row a submission's widget values make.
SubmittedRow(v) ==
    [Date |-> v[1], Description |-> v[2], Category |-> v[3], Amount |-> v[4],
     Type |-> v[5]]

\* C2: the transaction frame is append-only: a step with an Add Transaction
\* click puts exactly the submitted row behind the rows stored, and no other
\* step (Set Budget, a run that renders the tabs, the export) changes the frame.
C2_AppendOnly ==
    [][/\ Len(submitted') = Len(submitted) + 1 =>
             transactions' =
                 transactions \o <<SubmittedRow(submitted'[Len(submitted')])>>
       /\ submitted' = submitted => transactions' = transactions
       /\ Len(transactions') >= Len(transactions)
       /\ SubSeq(transactions', 1, Len(transactions)) = transactions]_vars

\* Two transactions are stored, the later one with the earlier date, a budget
\* is set and the file was exported.
C2_Witness ==
    /\ Len(transactions) = 2
    /\ DateLess(transactions[2].Date, transactions[1].Date)
    /\ budgets # << >>
    /\ download # NoFile

\* C8: every stored transaction has an amount above 0 and every stored budget a
\* limit above 0, so Percentage Used never divides by 0.
C8_PositiveAmounts ==
    /\ \A i \in 1..Len(transactions) : transactions[i].Amount > 0
    /\ \A i \in 1..Len(budgets) : budgets[i].Amount > 0
    /\ \A r \in {budget_vs_actual(transactions, budgets)[i] :
                    i \in 1..Len(budgets)} : r.Percentage_Used.den > 0

\* Transactions of both kinds and budgets of two categories are stored.
C8_Witness ==
    /\ \E i, j \in 1..Len(transactions) :
          transactions[i].Type = "Income" /\ transactions[j].Type = "Expense"
    /\ Len(budgets) = 2

\* The sum of the amounts of the stored transactions with their index in S.
RECURSIVE AmountsAt(_)
AmountsAt(S) ==
    IF S = {} THEN 0
    ELSE LET i == CHOOSE x \in S : TRUE
         IN transactions[i].Amount + AmountsAt(S \ {i})

\* The indices of the stored transactions of a kind.
OfKind(t) == {i \in 1..Len(transactions) : transactions[i].Type = t}

\* The indices of the stored Expense transactions of a category.
ExpensesOf(c) == {i \in OfKind("Expense") : transactions[i].Category = c}

\* What C3 says of the metrics of the Overview.
TotalsAreRight(metrics) ==
    /\ Len(metrics) = 1
    /\ metrics[1].total_income = AmountsAt(OfKind("Income"))
    /\ metrics[1].total_expenses = AmountsAt(OfKind("Expense"))
    /\ metrics[1].net_balance =
           metrics[1].total_income - metrics[1].total_expenses

\* C3: whenever transactions are stored, the Overview shows as Total Income the
\* sum of the amounts of the Income rows, as Total Expenses the sum of the
\* amounts of the Expense rows (0 when there is none of the kind), and as Net
\* Balance exactly the first minus the second.
C3_Totals ==
    transactions # << >> =>
        /\ OverviewInfo(transactions) = << >>
        /\ TotalsAreRight(OverviewMetrics(transactions))

\* Transactions of one kind only are stored, with different amounts, so one sum
\* is over no rows and the balance is negative.
C3_Witness ==
    /\ Len(transactions) = 2
    /\ OfKind("Income") = {}
    /\ transactions[1].Amount # transactions[2].Amount
    /\ OverviewMetrics(transactions)[1].net_balance < 0

\* C4: while no transaction is stored, each total evaluates to 0, every
\* aggregate frame is empty, and each tab shows its notice instead of failing.
C4_EmptyStore ==
    transactions = << >> =>
        /\ total_income(transactions) = 0
        /\ total_expenses(transactions) = 0
        /\ net_balance(transactions) = 0
        /\ monthly_data(transactions) = << >>
        /\ expenses(transactions) = << >>
        /\ expenses_by_category(transactions) = << >>
        /\ OverviewMetrics(transactions) = << >>
        /\ OverviewLine(transactions) = << >>
        /\ OverviewPie(transactions) = << >>
        /\ OverviewInfo(transactions) # << >>
        /\ History(transactions).data = << >>
        /\ History(transactions).info # << >>
        /\ BudgetAnalysis(transactions, budgets).table = << >>
        /\ BudgetAnalysis(transactions, budgets).info # << >>

\* No transaction is stored and budgets are set.
C4_Witness == transactions = << >> /\ Len(budgets) = 2

\* The rows of the Budget Analysis table, none when the tab shows its notice.
AnalysisTable ==
    LET t == BudgetAnalysis(transactions, budgets).table
    IN IF t = << >> THEN << >> ELSE t[1]

\* The budget stored for a category, as a set of amounts.
LimitsOf(c) == {budgets[i].Amount : i \in {j \in 1..Len(budgets) :
                                              budgets[j].Category = c}}

\* What C5 says of the rows of the Budget Analysis.
AnalysisIsRight(table) ==
    /\ \A c \in Categories :
          RowsOf(table, c) = RowsOf(budgets, c) /\ RowsOf(budgets, c) <= 1
    /\ \A i \in 1..Len(table) :
          LET r == table[i]
              p == r.Percentage_Used
          IN /\ LimitsOf(r.Category) = {r.Amount_budget}
             /\ r.Amount_actual = AmountsAt(ExpensesOf(r.Category))
             /\ r.Remaining = r.Amount_budget - r.Amount_actual
             /\ p.den > 0
             /\ p.num * r.Amount_budget = r.Amount_actual * 100 * p.den
             /\ (p.num > 100 * p.den) <=> (r.Amount_actual > r.Amount_budget)

\* C5 as claimed: for every transaction sequence, the empty one too, the Budget
\* Analysis table has exactly one row for each category with a budget and no
\* row for any other category; in a row, the actual amount is the sum of the
\* category's Expense amounts, Remaining is the limit minus the actual amount,
\* and Percentage Used is actual / limit * 100, above 100 exactly when the
\* actual amount is above the limit.
C5_BudgetVsActualAlways == AnalysisIsRight(AnalysisTable)

\* C5 amended: the same of every transaction sequence that is not empty; while
\* no transaction is stored the tab shows its notice and no row.
C5_BudgetVsActual ==
    /\ transactions # << >> => AnalysisIsRight(AnalysisTable)
    /\ (transactions # << >> /\ budgets # << >>) =>
          BudgetAnalysis(transactions, budgets).info = << >>
    /\ transactions = << >> => AnalysisTable = << >>

\* One category has a budget that its expenses exceed while it also has an
\* income, and the other category has an expense and no budget.
C5_Witness ==
    /\ Len(AnalysisTable) = 1
    /\ AnalysisTable[1].Remaining < 0
    /\ \E i \in 1..Len(transactions) :
          /\ transactions[i].Type = "Expense"
          /\ transactions[i].Category # AnalysisTable[1].Category

\* C6 as claimed: in every state, each category with a budget and no Expense
\* transaction has a row in the Budget Analysis with actual 0, Remaining equal
\* to the limit and Percentage Used 0, also while no transaction is stored.
C6_NoExpenseRowAlways ==
    \A c \in Categories :
        (LimitsOf(c) # {} /\ ExpensesOf(c) = {}) =>
            \E i \in 1..Len(AnalysisTable) :
                /\ AnalysisTable[i].Category = c
                /\ AnalysisTable[i].Amount_actual = 0
                /\ {AnalysisTable[i].Remaining} = LimitsOf(c)
                /\ AnalysisTable[i].Percentage_Used.num = 0

\* C6 amended: while at least one transaction is stored, each category with a
\* budget and no Expense transaction (no transaction of the category at all, or
\* Income only) has a row with actual 0, Remaining equal to the limit and
\* Percentage Used 0; while no transaction is stored the tab shows its notice
\* and no row.
C6_NoExpenseRow ==
    /\ transactions # << >> => C6_NoExpenseRowAlways
    /\ transactions = << >> =>
          /\ AnalysisTable = << >>
          /\ BudgetAnalysis(transactions, budgets).info # << >>

\* A category has a budget and only an Income transaction, another has a budget
\* and no transaction at all.
C6_Witness ==
    /\ Len(budgets) = 2
    /\ ExpensesOf(budgets[1].Category) = {}
    /\ ExpensesOf(budgets[2].Category) = {}
    /\ \E i \in 1..Len(transactions) :
          transactions[i].Type = "Income" /\ transactions[i].Category = budgets[1].Category
    /\ \A i \in 1..Len(transactions) : transactions[i].Category # budgets[2].Category

\* The number a text of digits writes.
RECURSIVE NatOf(_)
NatOf(s) ==
    IF s = << >> THEN 0
    ELSE 10 * NatOf(SubSeq(s, 1, Len(s) - 1)) + DigitValue(s[Len(s)])

\* Whether a text is a month key, "YYYY-MM".
IsMonthKey(s) ==
    /\ Len(s) = 7
    /\ s[5] = "-"
    /\ \A i \in {1, 2, 3, 4, 6, 7} : IsDigit(s[i])

\* The year and month a month key names.
MonthOf(s) == <<NatOf(SubSeq(s, 1, 4)), NatOf(SubSeq(s, 6, 7))>>

\* The indices of the stored transactions of a calendar month and kind.
InGroup(ym, t) ==
    {i \in OfKind(t) :
        <<transactions[i].Date.year, transactions[i].Date.month>> = ym}

\* The amounts of the rows of a kind in a monthly frame, added up.
RECURSIVE TrendTotal(_, _)
TrendTotal(rows, t) ==
    IF rows = << >> THEN 0
    ELSE (IF Head(rows).Type = t THEN Head(rows).Amount ELSE 0)
             + TrendTotal(Tail(rows), t)

\* The rows of the Overview's monthly trend, none when no chart is drawn.
TrendRows ==
    LET line == OverviewLine(transactions)
    IN IF line = << >> THEN << >> ELSE line[1]

\* What C7 says of the rows of the monthly trend.
TrendIsRight(rows) ==
    /\ \A k \in 1..Len(rows) :
          /\ IsMonthKey(rows[k].Month)
          /\ InGroup(MonthOf(rows[k].Month), rows[k].Type) # {}
          /\ rows[k].Amount =
                 AmountsAt(InGroup(MonthOf(rows[k].Month), rows[k].Type))
    /\ \A i \in 1..Len(transactions) :
          Cardinality({k \in 1..Len(rows) :
              /\ IsMonthKey(rows[k].Month)
              /\ MonthOf(rows[k].Month) =
                     <<transactions[i].Date.year, transactions[i].Date.month>>
              /\ rows[k].Type = transactions[i].Type}) = 1
    /\ TrendTotal(rows, "Expense") = total_expenses(transactions)
    /\ TrendTotal(rows, "Income") = total_income(transactions)
    /\ TrendTotal(rows, "Expense") = AmountsAt(OfKind("Expense"))
    /\ TrendTotal(rows, "Income") = AmountsAt(OfKind("Income"))
    /\ \A j, k \in 1..Len(rows) :
          j < k =>
              LET a == MonthOf(rows[j].Month)
                  b == MonthOf(rows[k].Month)
              IN a[1] < b[1] \/ (a[1] = b[1] /\ a[2] <= b[2])

\* C7: the monthly trend has exactly one row for each (calendar month, kind)
\* with at least one transaction and no other row, the row's amount is the sum
\* of its group's amounts, the Expense rows add up to the total expenses and
\* the Income rows to the total income, and the rows ascend by month.
C7_MonthlyTrend == TrendIsRight(TrendRows)

\* An income of January 2024 was added before an expense of December 2023: the
\* trend has two rows, in the other order.
C7_Witness ==
    /\ Len(transactions) = 2
    /\ transactions[1].Type = "Income" /\ transactions[2].Type = "Expense"
    /\ DateLess(transactions[2].Date, transactions[1].Date)
    /\ Len(TrendRows) = 2
    /\ TrendRows[1].Type = "Expense"

\* Two expenses of one month are stored: the trend has one row with their sum.
C7_WitnessSum ==
    /\ Len(transactions) = 2
    /\ transactions[1].Amount # transactions[2].Amount
    /\ Len(TrendRows) = 1
    /\ TrendRows[1].Amount = transactions[1].Amount + transactions[2].Amount

\* The categories of the sectors of a pie, none when no pie is drawn.
PieCategories(pie) == IF pie = << >> THEN {} ELSE {x.Category : x \in pie[1]}

\* What C9 says of the pie of the Overview.
BreakdownIsRight(pie) ==
    /\ pie # << >> <=> OfKind("Expense") # {}
    /\ \A c \in Categories : c \in PieCategories(pie) <=> ExpensesOf(c) # {}
    /\ pie # << >> =>
          \A x \in pie[1] :
              x.Amount = AmountsAt(ExpensesOf(x.Category)) /\ x.Amount > 0

\* C9: the expense breakdown holds a category exactly when an Expense
\* transaction of that category is stored (a category with no transaction, or
\* with Income only, has no sector and is not filled in with 0), each stored
\* category once with the sum of its Expense amounts, and no breakdown is shown
\* while no Expense transaction is stored.
C9_ExpenseBreakdown ==
    /\ BreakdownIsRight(OverviewPie(transactions))
    /\ \A c \in Categories :
          RowsOf(expenses_by_category(transactions), c) =
              (IF ExpensesOf(c) # {} THEN 1 ELSE 0)

\* One category has an expense and the other an income only.
C9_Witness ==
    /\ Len(transactions) = 2
    /\ transactions[1].Type = "Expense" /\ transactions[2].Type = "Income"
    /\ transactions[1].Category # transactions[2].Category
    /\ Cardinality(PieCategories(OverviewPie(transactions))) = 1

\* Only incomes are stored: the Overview is shown without a pie.
C9_WitnessNoPie ==
    /\ transactions # << >>
    /\ OfKind("Expense") = {}
    /\ OverviewMetrics(transactions) # << >>

\* The least member of a non-empty set of positions.
Least(S) == CHOOSE x \in S : \A y \in S : x <= y

\* The number of quote characters of a text from position a to position b.
QuotesIn(text, a, b) == Cardinality({i \in a..b : text[i] = "\""})

\* A quoted field's content with each doubled quote character made one.
RECURSIVE Undoubled(_)
Undoubled(f) ==
    IF f = << >> THEN << >>
    ELSE IF Head(f) = "\"" /\ Len(f) >= 2 /\ f[2] = "\""
    THEN <<"\"">> \o Undoubled(SubSeq(f, 3, Len(f)))
    ELSE <<Head(f)>> \o Undoubled(Tail(f))

\* A reader of comma-separated text: the rows of a text that ends each row with
\* a line feed, each row a sequence of fields.  A field that opens with a quote
\* character runs to the quote character that closes it (the first one that
\* leaves an odd number of them behind the opening one and has none after it),
\* a doubled quote character inside standing for one; any other field runs to
\* the next comma or line feed.  pos is the field's first character, row the
\* fields read of the current row, rows the finished rows.
RECURSIVE ReadCsv(_, _, _, _)
ReadCsv(text, pos, row, rows) ==
    IF pos > Len(text) THEN (IF row = << >> THEN rows ELSE Append(rows, row))
    ELSE LET quoted == text[pos] = "\""
             closing == Least({j \in pos + 1..Len(text) + 1 :
                            \/ j = Len(text) + 1
                            \/ /\ text[j] = "\""
                               /\ QuotesIn(text, pos + 1, j) % 2 = 1
                               /\ (j = Len(text) \/ text[j + 1] # "\"")})
             from == IF quoted THEN closing + 1 ELSE pos
             stop == Least({j \in from..Len(text) + 1 :
                            j = Len(text) + 1 \/ text[j] \in {",", "\n"}})
             field == IF quoted
                      THEN Undoubled(SubSeq(text, pos + 1, closing - 1))
                               \o SubSeq(text, closing + 1, stop - 1)
                      ELSE SubSeq(text, pos, stop - 1)
         IN IF stop <= Len(text) /\ text[stop] = ","
            THEN ReadCsv(text, stop + 1, Append(row, field), rows)
            ELSE ReadCsv(text, stop + 1, << >>, Append(rows, Append(row, field)))

ParsedCsv(text) == ReadCsv(text, 1, << >>, << >>)

\* Whether a text is a date, "YYYY-MM-DD".
IsDateText(s) ==
    /\ Len(s) = 10
    /\ s[5] = "-" /\ s[8] = "-"
    /\ \A i \in {1, 2, 3, 4, 6, 7, 9, 10} : IsDigit(s[i])

DateOf(s) ==
    [year |-> NatOf(SubSeq(s, 1, 4)), month |-> NatOf(SubSeq(s, 6, 7)),
     day |-> NatOf(SubSeq(s, 9, 10))]

\* Whether a text is a decimal number with one or two digits behind its point.
IsAmountText(s) ==
    /\ \A i \in 1..Len(s) : IsDigit(s[i]) \/ s[i] = "."
    /\ \E k \in 2..Len(s) - 1 :
          /\ s[k] = "."
          /\ Len(s) - k <= 2
          /\ \A i \in 1..Len(s) : s[i] = "." => i = k

\* The hundredths a decimal number text stands for.
AmountOf(s) ==
    LET k == CHOOSE i \in 1..Len(s) : s[i] = "."
        frac == SubSeq(s, k + 1, Len(s))
    IN 100 * NatOf(SubSeq(s, 1, k - 1))
           + (IF Len(frac) = 1 THEN 10 * NatOf(frac) ELSE NatOf(frac))

\* Whether a row read back from the file is a stored row.
ReadsBackAs(fields, r) ==
    /\ Len(fields) = 5
    /\ IsDateText(fields[1]) /\ DateOf(fields[1]) = r.Date
    /\ fields[2] = r.Description
    /\ fields[3] = <<r.Category>>
    /\ IsAmountText(fields[4]) /\ AmountOf(fields[4]) = r.Amount
    /\ fields[5] = <<r.Type>>

\* C10: whenever transactions are stored, the export offered, and the file a
\* click on it delivers, holds the header and then one row for each stored
\* transaction in the order of the store, not in the order of the table on
\* screen, and reading the file back gives the stored (Date, Description,
\* Category, Amount, Type) tuples in that order.
C10_ExportRoundTrip ==
    /\ transactions # << >> =>
          /\ Len(History(transactions).data) = 1
          /\ LET rows == ParsedCsv(History(transactions).data[1])
             IN /\ Len(rows) = Len(transactions) + 1
                /\ rows[1] = <<<<"Date">>, <<"Description">>, <<"Category">>,
                               <<"Amount">>, <<"Type">>>>
                /\ \A i \in 1..Len(transactions) :
                      ReadsBackAs(rows[i + 1], transactions[i])
    /\ download # NoFile =>
          /\ transactions # << >>
          /\ download = History(transactions).data[1]

\* A file was delivered for two transactions whose order in the store is not
\* the order of the table, one with a comma and one with a quote character in
\* its description, with amounts of 0.01 and 30.50.
C10_Witness ==
    /\ download # NoFile
    /\ Len(transactions) = 2
    /\ DateLess(transactions[1].Date, transactions[2].Date)
    /\ sort_values(transactions) # transactions
    /\ transactions[1].Description = <<"a", ",", "b">>
    /\ transactions[2].Description = <<"\"", "a">>
    /\ transactions[1].Amount = 1
    /\ transactions[2].Amount = 3050

====
